---------------------------- MODULE Spec2Model ----------------------------
(***************************************************************************)
(* A model of the `physics` crate: the bounded Angle type (angles.rs), the *)
(* unit-tagged Scalar and Vector containers (scalars.rs, vectors.rs) and   *)
(* the cross-unit conversion table (conversion.rs).                        *)
(*                                                                         *)
(* Float (lib.rs: `pub type Float = f64`) is modelled by a miniature       *)
(* binary floating-point format: a number is a count of ticks of size      *)
(* 1/One, it carries at most MantBits significant bits, and every          *)
(* arithmetic result is rounded to the nearest representable number, ties  *)
(* to the even mantissa, as IEEE-754 does.  Numbers below 2^MantBits ticks *)
(* are spaced one tick apart (the format's subnormal range).  The format   *)
(* has one zero, no overflow (the inputs stay far below it), and the three *)
(* special values Inf, NegInf and NaN.                                     *)
(***************************************************************************)
EXTENDS Integers, Sequences, FiniteSets, TLC

VARIABLES
    a,        \* the caller's Angle binding: the radian value it holds (Angle.0)
    last,     \* the last Angle operation applied, its operands and its binary form
    vec,      \* the caller's Vector binding: [x, y]
    vres,     \* the last Vector operation applied and what it returned
    q,        \* the caller's quantity binding: [kind, unit, x, y]
    qres      \* the operations applied to q, and whether the expression type-checks

vars == <<a, last, vec, vres, q, qres>>

---------------------------------------------------------------------------
(* The floating-point format.                                              *)

\* Significant bits of the miniature format (f64 has 53).
MantBits == 8

\* 1.0 is 2^FracBits ticks.
FracBits == 7

One == 2^FracBits

Inf == 2^30
NegInf == -Inf
NaN == Inf + 1

IsNaN(x) == x = NaN
IsFinite(x) == x \notin {Inf, NegInf, NaN}

Abs(n) == IF n < 0 THEN -n ELSE n
Sign(n) == IF n < 0 THEN -1 ELSE 1

\* The spacing of the representable numbers around a magnitude of m ticks.
RECURSIVE UlpFrom(_, _)
UlpFrom(m, u) == IF m < u * 2^MantBits THEN u ELSE UlpFrom(m, 2 * u)

Ulp(m) == UlpFrom(m, 1)

Representable(n) == Abs(n) % Ulp(Abs(n)) = 0

\* n/d (n >= 0, d > 0) rounded to the nearest integer, ties to even.
RoundHalfEven(n, d) ==
    LET quo == n \div d
        rem == n % d
    IN  IF 2 * rem < d THEN quo
        ELSE IF 2 * rem > d THEN quo + 1
        ELSE IF quo % 2 = 0 THEN quo ELSE quo + 1

\* The exact rational num/den (den > 0), in ticks, rounded to the format.
RoundRat(num, den) ==
    LET mag == Abs(num)
        u == Ulp(mag \div den)
    IN  Sign(num) * u * RoundHalfEven(mag, den * u)

FNeg(x) == IF IsNaN(x) THEN NaN ELSE -x

FAdd(x, y) ==
    IF IsNaN(x) \/ IsNaN(y) THEN NaN
    ELSE IF ~IsFinite(x) THEN (IF ~IsFinite(y) /\ y # x THEN NaN ELSE x)
    ELSE IF ~IsFinite(y) THEN y
    ELSE RoundRat(x + y, 1)

FSub(x, y) == FAdd(x, FNeg(y))

FMul(x, y) ==
    IF IsNaN(x) \/ IsNaN(y) THEN NaN
    ELSE IF ~IsFinite(x) \/ ~IsFinite(y)
         THEN (IF x = 0 \/ y = 0 THEN NaN
               ELSE IF Sign(x) = Sign(y) THEN Inf ELSE NegInf)
    ELSE RoundRat(x * y, One)

FDiv(x, y) ==
    IF IsNaN(x) \/ IsNaN(y) THEN NaN
    ELSE IF ~IsFinite(x)
         THEN (IF ~IsFinite(y) THEN NaN
               ELSE IF Sign(x) = Sign(y) THEN Inf ELSE NegInf)
    ELSE IF ~IsFinite(y) THEN 0
    ELSE IF y = 0
         THEN (IF x = 0 THEN NaN ELSE IF x > 0 THEN Inf ELSE NegInf)
    ELSE RoundRat(Sign(y) * x * One, Abs(y))

\* Rust's % on floats: the remainder of the truncated division, with the
\* sign of the dividend; it is always exact.
FRem(x, y) ==
    IF IsNaN(x) \/ IsNaN(y) \/ ~IsFinite(x) \/ y = 0 THEN NaN
    ELSE IF ~IsFinite(y) THEN x
    ELSE Sign(x) * (Abs(x) % Abs(y))

FLt(x, y) == ~IsNaN(x) /\ ~IsNaN(y) /\ x < y
FGe(x, y) == ~IsNaN(x) /\ ~IsNaN(y) /\ x >= y
FEq(x, y) == ~IsNaN(x) /\ ~IsNaN(y) /\ x = y

\* The float nearest to a whole number n.
Lit(n) == RoundRat(n * One, 1)

\* The finite floats of magnitude at most n ticks.
Floats(n) == {x \in -n..n : Representable(x)}

---------------------------------------------------------------------------
(* angles.rs                                                               *)

\* std::f64::consts::PI: the float nearest to pi (355/113 agrees with pi
\* far beyond the format's precision).
PI == RoundRat(355 * One, 113)

MIN == 0
MAX == FMul(Lit(2), PI)

in_radians(radians) ==
    IF FLt(radians, MIN)
    THEN LET neg == FNeg(radians)
             rem == FRem(neg, MAX)
         IN  FAdd(FNeg(rem), MAX)
    ELSE IF FGe(radians, MAX) THEN FRem(radians, MAX)
    ELSE radians

get_radians(degrees) == FDiv(FMul(degrees, PI), Lit(180))

in_degrees(degrees) == in_radians(get_radians(degrees))

get_degrees(self) == FDiv(FMul(self, Lit(180)), PI)

AngleMul(self, rhs) == in_radians(FMul(self, rhs))
AngleDiv(self, rhs) == in_radians(FDiv(self, rhs))
AngleAdd(self, rhs) == in_radians(FAdd(self, rhs))
AngleSub(self, rhs) == in_radians(FSub(self, rhs))

\* The in-place forms: what the binding holds afterwards.
AngleMulAssign(self, rhs) == FMul(self, rhs)
AngleDivAssign(self, rhs) == FDiv(self, rhs)
AngleAddAssign(self, rhs) == AngleAdd(self, rhs)
AngleSubAssign(self, rhs) == AngleSub(self, rhs)

\* The invariant of the type: the canonical range [0, 2pi).
InRange(x) == FGe(x, MIN) /\ FLt(x, MAX)


---------------------------------------------------------------------------
(* f64::sin, f64::cos, f64::atan and f64::sqrt: the value of the           *)
(* mathematical function at the float, computed in fixed point with        *)
(* TrigScale units per 1.0 and rounded to the format.                      *)

TrigScale == 2^14

\* pi in TrigScale units (355/113 is exact to the last unit).
PiS == (2 * 355 * TrigScale + 113) \div (2 * 113)
HalfPiS == (355 * TrigScale + 113) \div (2 * 113)
TwoPiS == (4 * 355 * TrigScale + 113) \div (2 * 113)

\* n/d (n >= 0, d > 0) to the nearest whole number.
DivR(n, d) == (2 * n + d) \div (2 * d)

\* 1 - z/c * inner, with z and inner in TrigScale units: one Horner step of
\* the Taylor series.
Horner(z, c, inner) == TrigScale - DivR(z * inner, c * TrigScale)

\* sin and cos of r in [0, pi/2], in TrigScale units.
SinQ(r) ==
    LET z == DivR(r * r, TrigScale)
        p == Horner(z, 6, Horner(z, 20, Horner(z, 42,
                 Horner(z, 72, Horner(z, 110, TrigScale)))))
    IN  DivR(r * p, TrigScale)

CosQ(r) ==
    LET z == DivR(r * r, TrigScale)
    IN  Horner(z, 2, Horner(z, 12, Horner(z, 30,
            Horner(z, 56, Horner(z, 90, TrigScale)))))

\* x ticks, reduced to [0, 2pi) in TrigScale units.
Reduce(x) == (x * (TrigScale \div One)) % TwoPiS

SinS(x) ==
    LET y == Reduce(x)
    IN  IF y <= HalfPiS THEN SinQ(y)
        ELSE IF y <= PiS THEN SinQ(PiS - y)
        ELSE IF y <= PiS + HalfPiS THEN -SinQ(y - PiS)
        ELSE -SinQ(TwoPiS - y)

CosS(x) ==
    LET y == Reduce(x)
    IN  IF y <= HalfPiS THEN CosQ(y)
        ELSE IF y <= PiS THEN -CosQ(PiS - y)
        ELSE IF y <= PiS + HalfPiS THEN -CosQ(y - PiS)
        ELSE CosQ(TwoPiS - y)

FSin(x) == IF ~IsFinite(x) THEN NaN ELSE RoundRat(SinS(x) * One, TrigScale)
FCos(x) == IF ~IsFinite(x) THEN NaN ELSE RoundRat(CosS(x) * One, TrigScale)

\* The series 1/k - z/(k+2) + z^2/(k+4) - ... in TrigScale units.
RECURSIVE AtanTail(_, _)
AtanTail(z, k) ==
    IF k >= 17 THEN DivR(TrigScale, k)
    ELSE DivR(TrigScale, k) - DivR(z * AtanTail(z, k + 2), TrigScale)

\* atan of w in [0, tan(pi/8)], in TrigScale units.
AtanSeries(w) == DivR(w * AtanTail(DivR(w * w, TrigScale), 1), TrigScale)

\* atan of w in [0, 1]: above tan(pi/8), pi/4 - atan((1 - w)/(1 + w)).
AtanUnit(w) ==
    IF 5 * w <= 2 * TrigScale THEN AtanSeries(w)
    ELSE DivR(HalfPiS, 2) - AtanSeries(DivR((TrigScale - w) * TrigScale, TrigScale + w))

\* atan of lo/hi and of hi/lo for 0 <= lo <= hi, in TrigScale units.
AtanS(n, d) ==
    IF n <= d THEN AtanUnit(DivR(n * TrigScale, d))
    ELSE HalfPiS - AtanUnit(DivR(d * TrigScale, n))

FAtan(x) ==
    IF IsNaN(x) THEN NaN
    ELSE IF ~IsFinite(x) THEN Sign(x) * RoundRat(HalfPiS * One, TrigScale)
    ELSE Sign(x) * RoundRat(AtanS(Abs(x), One) * One, TrigScale)

\* The largest whole s with s * s <= n, between lo and hi.
RECURSIVE ISqrtIn(_, _, _)
ISqrtIn(n, lo, hi) ==
    IF lo >= hi THEN lo
    ELSE LET mid == (lo + hi + 1) \div 2
         IN  IF mid * mid <= n THEN ISqrtIn(n, mid, hi) ELSE ISqrtIn(n, lo, mid - 1)

ISqrt(n) == ISqrtIn(n, 0, 2^15)

\* sqrt is correctly rounded: of the two floats around the root, the nearer.
FSqrt(x) ==
    IF IsNaN(x) \/ x < 0 THEN NaN
    ELSE IF x = Inf THEN Inf
    ELSE LET n == x * One
             s == ISqrt(n)
             u == Ulp(s)
             lo == (s \div u) * u
         IN  IF lo * lo = n THEN lo
             ELSE IF 4 * n > (2 * lo + u) * (2 * lo + u) THEN lo + u
             ELSE IF 4 * n < (2 * lo + u) * (2 * lo + u) THEN lo
             ELSE IF (lo \div u) % 2 = 0 THEN lo ELSE lo + u

---------------------------------------------------------------------------
(* The inputs the Angle operations are applied to.                         *)

\* Radian inputs lie within MaxTurns full turns of zero.
MaxTurns == 2

\* A binding is operated on at most MaxOps times after its construction.
MaxOps == 2

\* Dimensionless factors range over the whole numbers up to MaxFactor in
\* magnitude, and one half.
MaxFactor == 3

\* Whole multiples of 2pi, and the floats a quarter turn, a half turn and
\* one tick to either side of them.
RadInputs ==
    {FAdd(FMul(Lit(k), MAX), o) :
        k \in (-MaxTurns)..MaxTurns,
        o \in {FNeg(PI), FNeg(FDiv(PI, Lit(2))), -1, 0, 1, FDiv(PI, Lit(2)), PI}}

DegInputs == {Lit(15 * i) : i \in (-24 * MaxTurns)..(24 * MaxTurns)}

Factors == {Lit(n) : n \in (-MaxFactor)..MaxFactor} \cup {One \div 2, -(One \div 2)}

\* Right-hand Angle operands: Angles built by the constructors, the
\* smallest positive Angle and the largest Angle below 2pi.
AngleOperands ==
    {in_degrees(Lit(45 * i)) : i \in 0..7}
        \cup {in_degrees(Lit(d)) : d \in {10, 20, 200, 350}}
        \cup {1, MAX - Ulp(MAX - 1)}

\* What an in-place operation may leave in the binding in this model.
Bounded(x) == IsFinite(x) => Abs(x) <= MaxTurns * MAX

AngleOp(op, lhs, rhs, bin, n) ==
    [op |-> op, lhs |-> lhs, rhs |-> rhs, bin |-> bin, n |-> n]

\* #[derive(Default)]: Angle(0.0).
AngleInit ==
    /\ a = 0
    /\ last = AngleOp("default", 0, 0, 0, 0)

\* let mut a = Angle::in_radians(r);
InRadians(r) ==
    /\ last.op = "default"
    /\ a' = in_radians(r)
    /\ last' = AngleOp("in_radians", r, 0, in_radians(r), 0)
    /\ UNCHANGED <<vec, vres, q, qres>>

\* let mut a = Angle::in_degrees(d);
InDegrees(d) ==
    /\ last.op = "default"
    /\ a' = in_degrees(d)
    /\ last' = AngleOp("in_degrees", d, 0, in_degrees(d), 0)
    /\ UNCHANGED <<vec, vres, q, qres>>

\* let a = a * k;
Mul(k) ==
    /\ last.n < MaxOps
    /\ a' = AngleMul(a, k)
    /\ last' = AngleOp("mul", a, k, AngleMul(a, k), last.n + 1)
    /\ UNCHANGED <<vec, vres, q, qres>>

\* let a = a / k;
Div(k) ==
    /\ last.n < MaxOps
    /\ a' = AngleDiv(a, k)
    /\ last' = AngleOp("div", a, k, AngleDiv(a, k), last.n + 1)
    /\ UNCHANGED <<vec, vres, q, qres>>

\* let a = a + b;
Add(b) ==
    /\ last.n < MaxOps
    /\ a' = AngleAdd(a, b)
    /\ last' = AngleOp("add", a, b, AngleAdd(a, b), last.n + 1)
    /\ UNCHANGED <<vec, vres, q, qres>>

\* let a = a - b;
Sub(b) ==
    /\ last.n < MaxOps
    /\ a' = AngleSub(a, b)
    /\ last' = AngleOp("sub", a, b, AngleSub(a, b), last.n + 1)
    /\ UNCHANGED <<vec, vres, q, qres>>

\* a *= k;
MulAssign(k) ==
    /\ last.n < MaxOps
    /\ Bounded(AngleMulAssign(a, k))
    /\ a' = AngleMulAssign(a, k)
    /\ last' = AngleOp("mul_assign", a, k, AngleMul(a, k), last.n + 1)
    /\ UNCHANGED <<vec, vres, q, qres>>

\* a /= k;
DivAssign(k) ==
    /\ last.n < MaxOps
    /\ Bounded(AngleDivAssign(a, k))
    /\ a' = AngleDivAssign(a, k)
    /\ last' = AngleOp("div_assign", a, k, AngleDiv(a, k), last.n + 1)
    /\ UNCHANGED <<vec, vres, q, qres>>

\* a += b;
AddAssign(b) ==
    /\ last.n < MaxOps
    /\ a' = AngleAddAssign(a, b)
    /\ last' = AngleOp("add_assign", a, b, AngleAdd(a, b), last.n + 1)
    /\ UNCHANGED <<vec, vres, q, qres>>

\* a -= b;
SubAssign(b) ==
    /\ last.n < MaxOps
    /\ a' = AngleSubAssign(a, b)
    /\ last' = AngleOp("sub_assign", a, b, AngleSub(a, b), last.n + 1)
    /\ UNCHANGED <<vec, vres, q, qres>>

AngleNext ==
    \/ \E r \in RadInputs : InRadians(r)
    \/ \E d \in DegInputs : InDegrees(d)
    \/ \E k \in Factors : Mul(k)
    \/ \E k \in Factors : Div(k)
    \/ \E b \in AngleOperands : Add(b)
    \/ \E b \in AngleOperands : Sub(b)
    \/ \E k \in Factors : MulAssign(k)
    \/ \E k \in Factors : DivAssign(k)
    \/ \E b \in AngleOperands : AddAssign(b)
    \/ \E b \in AngleOperands : SubAssign(b)

---------------------------------------------------------------------------
(* Claims about Angle.                                                     *)

Constructors == {"in_radians", "in_degrees"}
Binary == {"add", "sub", "mul", "div"}
InPlace == {"add_assign", "sub_assign", "mul_assign", "div_assign"}

\* The operands the closure claims speak of: Angles in range, finite
\* factors, and no division by zero.
ValidOperands ==
    /\ InRange(last.lhs)
    /\ IsFinite(last.rhs)
    /\ last.op \in {"add", "sub", "add_assign", "sub_assign"} => InRange(last.rhs)
    /\ last.op \in {"div", "div_assign"} => last.rhs # 0

\* C1: the Angle built by in_radians(r) or in_degrees(d) from a finite
\* input holds a radian value v with 0 <= v < 2pi.
C1_ConstructedInRange ==
    (last.op \in Constructors /\ IsFinite(last.lhs)) => InRange(a)

\* C2: for Angles lhs, rhs in [0, 2pi) and a finite factor k (nonzero for
\* division), lhs + rhs, lhs - rhs, lhs * k and lhs / k lie in [0, 2pi).
C2_Closure ==
    (last.op \in Binary /\ ValidOperands) => InRange(a)

\* C3: after a += b, a -= b, a *= k or a /= k the binding holds exactly
\* the value the binary form returns, and that value lies in [0, 2pi).
C3_InPlaceRenormalized ==
    (last.op \in InPlace /\ ValidOperands) => (FEq(a, last.bin) /\ InRange(a))

\* C4: in_radians(r) equals in_radians(r + k * 2pi) for every whole k; the
\* shifted input is taken where r + k * 2pi is a float, so that the
\* comparison is of the normalization alone.
C4_Periodic ==
    last.op = "in_radians" =>
        \A k \in (-MaxTurns)..MaxTurns :
            Representable(last.lhs + k * MAX) =>
                FEq(a, in_radians(last.lhs + k * MAX))

\* C17: every value in_radians returns is a fixed point of in_radians:
\* in_radians(v) == in_radians(r), where v is the value held by
\* in_radians(r), for every finite r.
C17_Idempotent ==
    (last.op = "in_radians" /\ IsFinite(last.lhs)) => FEq(in_radians(a), a)

---------------------------------------------------------------------------
(* scalars.rs and vectors.rs: a Scalar<T> is its value, a Vector<T> is the *)
(* record of its two components' values.  The unit tag T has no runtime    *)
(* content; it is modelled with the conversion table below.                *)

None == [some |-> FALSE]
Some(v) == [some |-> TRUE, val |-> v]

Vector_new(x, y) == [x |-> x, y |-> y]

Scalar_zero == 0
Vector_zero == Vector_new(Scalar_zero, Scalar_zero)

\* impl PartialEq for Scalar<T>, and #[derive(PartialEq)] for Vector<T>.
ScalarEq(lhs, rhs) == FEq(lhs, rhs)
VectorEq(lhs, rhs) == ScalarEq(lhs.x, rhs.x) /\ ScalarEq(lhs.y, rhs.y)

\* Scalar<T> * Float, Float * Scalar<T>, Scalar<T> / Float, Scalar<T> / Scalar<T>.
ScalarMulFloat(self, rhs) == FMul(self, rhs)
FloatMulScalar(self, rhs) == ScalarMulFloat(rhs, self)
ScalarDivFloat(self, rhs) == FDiv(self, rhs)
ScalarDivScalar(self, rhs) == FDiv(self, rhs)
ScalarNeg(self) == ScalarMulFloat(self, Lit(-1))
ScalarAdd(self, rhs) == FAdd(self, rhs)
ScalarSub(self, rhs) == FSub(self, rhs)

magnitude_squared(self) == FAdd(FMul(self.x, self.x), FMul(self.y, self.y))

\* magnitude, had it added the components' sizes.
magnitude_taxicab(self) == FAdd(Abs(self.x), Abs(self.y))

magnitude(self) == FSqrt(magnitude_squared(self))

\* unit_vector, had it tested the magnitude instead of the components.
unit_vector_by_magnitude(self) ==
    LET m == magnitude(self)
    IN  IF ScalarEq(m, Scalar_zero) THEN None
        ELSE Some(Vector_new(ScalarDivScalar(self.x, m), ScalarDivScalar(self.y, m)))

unit_vector(self) ==
    IF VectorEq(self, Vector_zero) THEN None
    ELSE LET m == magnitude(self)
         IN  Some(Vector_new(ScalarDivScalar(self.x, m), ScalarDivScalar(self.y, m)))

\* Mul<UnitVector> for Scalar<T>, had it scaled the components crosswise.
ScalarMulUnitVector_crossed(self, rhs) ==
    Vector_new(FMul(self, rhs.y), FMul(self, rhs.x))

\* Mul<UnitVector> for Scalar<T>, and Mul<Scalar<T>> for UnitVector.
ScalarMulUnitVector(self, rhs) ==
    Vector_new(FMul(self, rhs.x), FMul(self, rhs.y))

UnitVectorMulScalar(self, rhs) == ScalarMulUnitVector(rhs, self)

\* Angle::sin and Angle::cos: the float's sine and cosine.
AngleSin(self) == FSin(self)
AngleCos(self) == FCos(self)

\* rotate_cw, had it left the cosine out of the y component.
rotate_cw_sheared(self, angle) ==
    LET cos == AngleCos(angle)
        sin == AngleSin(angle)
    IN  Vector_new(ScalarSub(FloatMulScalar(cos, self.x), FloatMulScalar(sin, self.y)),
                   ScalarAdd(FloatMulScalar(sin, self.x), self.y))

rotate_cw(self, angle) ==
    LET cos == AngleCos(angle)
        sin == AngleSin(angle)
    IN  Vector_new(ScalarSub(FloatMulScalar(cos, self.x), FloatMulScalar(sin, self.y)),
                   ScalarAdd(FloatMulScalar(sin, self.x), FloatMulScalar(cos, self.y)))

\* `-angle`: angles.rs holds no Neg for Angle; the radian value is negated
\* and not renormalized, as Neg for Scalar<T> negates a value.
AngleNeg(self) == FNeg(self)

\* from_magnitude_and_angle, had it not negated the angle.
from_magnitude_and_angle_unnegated(mag, angle) ==
    LET cos == AngleCos(angle)
        sin == AngleSin(angle)
    IN  Vector_new(FloatMulScalar(FNeg(sin), mag), FloatMulScalar(cos, mag))

from_magnitude_and_angle(mag, angle) ==
    LET neg == AngleNeg(angle)
        cos == AngleCos(neg)
        sin == AngleSin(neg)
    IN  Vector_new(FloatMulScalar(FNeg(sin), mag), FloatMulScalar(cos, mag))

\* Vector::atan
VectorAtan(self) == in_radians(FAtan(ScalarDivScalar(self.x, self.y)))

get_angle(self) ==
    IF VectorEq(self, Vector_zero) THEN None
    ELSE IF FLt(self.x, 0) /\ FLt(self.y, 0)
         THEN Some(AngleSub(VectorAtan(self), in_degrees(Lit(180))))
    ELSE IF FLt(self.y, 0)
         THEN Some(AngleAdd(in_degrees(Lit(180)), VectorAtan(self)))
    ELSE Some(VectorAtan(self))

---------------------------------------------------------------------------
(* The Vector operations and their inputs.                                 *)

\* Components and magnitudes range over the whole numbers up to MaxComp in
\* magnitude; components also over one tick (the smallest positive float),
\* its negative, and NaN.
MaxComp == 2

Components == {Lit(n) : n \in (-MaxComp)..MaxComp} \cup {-1, 1, NaN}

Magnitudes == {Lit(n) : n \in (-MaxComp)..MaxComp}

\* The vectors of the tests: Position::new(3.0, 4.0), Position::new(0.0, 2.1).
TestVectors == {<<Lit(3), Lit(4)>>, <<0, FDiv(Lit(21), Lit(10))>>}

VectorInputs == (Components \X Components) \cup TestVectors

\* Directions: every 15 degrees, the smallest positive Angle and the
\* largest Angle below 2pi.
Directions ==
    {in_degrees(Lit(15 * i)) : i \in 0..23} \cup {1, MAX - Ulp(MAX - 1)}

VectorOp(made, mag, angle, op, ret) ==
    [made |-> made, mag |-> mag, angle |-> angle, op |-> op, ret |-> ret]

\* #[derive(Default)]: Vector { x: 0.0, y: 0.0 }.
VectorInit ==
    /\ vec = Vector_zero
    /\ vres = VectorOp("default", 0, 0, "none", None)

\* let v = Vector::from((x, y));
VectorFrom(x, y) ==
    /\ vres.made = "default"
    /\ vec' = Vector_new(x, y)
    /\ vres' = VectorOp("from", 0, 0, "none", None)
    /\ UNCHANGED <<a, last, q, qres>>

\* let v = Vector::from_magnitude_and_angle(mag, angle);
FromMagnitudeAndAngle(mag, angle) ==
    /\ vres.made = "default"
    /\ vec' = from_magnitude_and_angle(mag, angle)
    /\ vres' = VectorOp("from_magnitude_and_angle", mag, angle, "none", None)
    /\ UNCHANGED <<a, last, q, qres>>

\* v.get_angle()
GetAngle ==
    /\ vres' = [vres EXCEPT !.op = "get_angle", !.ret = get_angle(vec)]
    /\ UNCHANGED <<vec, a, last, q, qres>>

\* v.unit_vector()
UnitVector ==
    /\ vres' = [vres EXCEPT !.op = "unit_vector", !.ret = unit_vector(vec)]
    /\ UNCHANGED <<vec, a, last, q, qres>>

\* v.magnitude_squared()
MagnitudeSquared ==
    /\ vres' = [vres EXCEPT !.op = "magnitude_squared",
                            !.ret = Some(magnitude_squared(vec))]
    /\ UNCHANGED <<vec, a, last, q, qres>>

\* v.magnitude()
Magnitude ==
    /\ vres' = [vres EXCEPT !.op = "magnitude", !.ret = Some(magnitude(vec))]
    /\ UNCHANGED <<vec, a, last, q, qres>>

\* v.magnitude() * v.unit_vector().unwrap()
MagnitudeTimesUnitVector ==
    /\ vres.op = "unit_vector" /\ vres.ret.some
    /\ vres' = [vres EXCEPT !.op = "scalar_mul_unit_vector",
                            !.ret = Some(ScalarMulUnitVector(magnitude(vec), vres.ret.val))]
    /\ UNCHANGED <<vec, a, last, q, qres>>

\* v.unit_vector().unwrap() * v.magnitude()
UnitVectorTimesMagnitude ==
    /\ vres.op = "unit_vector" /\ vres.ret.some
    /\ vres' = [vres EXCEPT !.op = "unit_vector_mul_scalar",
                            !.ret = Some(UnitVectorMulScalar(vres.ret.val, magnitude(vec)))]
    /\ UNCHANGED <<vec, a, last, q, qres>>

VectorNext ==
    \/ \E v \in VectorInputs : VectorFrom(v[1], v[2])
    \/ \E m \in Magnitudes, d \in Directions : FromMagnitudeAndAngle(m, d)
    \/ GetAngle
    \/ UnitVector
    \/ MagnitudeSquared
    \/ Magnitude
    \/ MagnitudeTimesUnitVector
    \/ UnitVectorTimesMagnitude

---------------------------------------------------------------------------
(* Claims about Vector.                                                    *)

\* The distance between two Angles around the circle.
AngleDist(x, y) ==
    IF Abs(x - y) <= MAX - Abs(x - y) THEN Abs(x - y) ELSE MAX - Abs(x - y)

\* The rounding error allowed to a computed Angle: two units in the last
\* place of 2pi.
AngleTol == 2 * Ulp(MAX)

FiniteVector(v) == IsFinite(v.x) /\ IsFinite(v.y)

AskedAngleOfPolar ==
    /\ vres.made = "from_magnitude_and_angle"
    /\ vres.op = "get_angle"
    /\ vres.mag # 0

CompassDegrees(x, y) ==
    CASE x = 0 /\ y > 0 -> 0
      [] x > 0 /\ y > 0 -> 45
      [] x > 0 /\ y = 0 -> 90
      [] x > 0 /\ y < 0 -> 135
      [] x = 0 /\ y < 0 -> 180
      [] x < 0 /\ y < 0 -> 225
      [] x < 0 /\ y = 0 -> 270
      [] x < 0 /\ y > 0 -> 315

IsCompass(v) == Abs(v.x) \in {0, One} /\ Abs(v.y) \in {0, One}

\* C6: for every nonzero vector get_angle returns a bearing in [0, 2pi);
\* on the eight compass directions it is 0, 45, ..., 315 degrees (taken up
\* to rounding error).
C6_Bearing ==
    (vres.op = "get_angle" /\ FiniteVector(vec) /\ ~VectorEq(vec, Vector_zero)) =>
        /\ vres.ret.some
        /\ InRange(vres.ret.val)
        /\ IsCompass(vec) =>
              AngleDist(vres.ret.val,
                        in_degrees(Lit(CompassDegrees(vec.x, vec.y)))) <= AngleTol

\* C7: unit_vector() and get_angle() return None if and only if both
\* components compare equal to zero.
C7_NoneIffZero ==
    vres.op \in {"get_angle", "unit_vector"} =>
        (vres.ret = None <=> (FEq(vec.x, 0) /\ FEq(vec.y, 0)))

\* A nonzero vector whose magnitude rounds to zero still has a unit vector.
C7_Witness ==
    /\ vres.op = "unit_vector"
    /\ ~VectorEq(vec, Vector_zero)
    /\ magnitude(vec) = 0
    /\ vres.ret.some

\* The products of the magnitude and the unit vector, in either order.
Products == {"scalar_mul_unit_vector", "unit_vector_mul_scalar"}

NonZeroVector(v) == FiniteVector(v) /\ ~VectorEq(v, Vector_zero)

\* The components of u and v differ by at most tol.
VectorWithin(u, v, tol) ==
    /\ FiniteVector(u)
    /\ Abs(u.x - v.x) <= tol
    /\ Abs(u.y - v.y) <= tol

\* unit_vector() of a nonzero vector is (x / |v|, y / |v|).
UnitVectorDivides ==
    (vres.op = "unit_vector" /\ NonZeroVector(vec)) =>
        vres.ret = Some(Vector_new(FDiv(vec.x, magnitude(vec)),
                                   FDiv(vec.y, magnitude(vec))))

NearestRoot(m, s) ==
    /\ m >= 0
    /\ IF m = 0 THEN s = 0
       ELSE /\ (2 * m - Ulp(m)) * (2 * m - Ulp(m)) <= 4 * s * One
            /\ 4 * s * One <= (2 * m + Ulp(m)) * (2 * m + Ulp(m))

\* magnitude_squared() is x^2 + y^2, Vector(3, 4).magnitude() == 5 and
\* Vector(0, 0).magnitude() == 0.
MagnitudeValues ==
    /\ (vres.op = "magnitude_squared" /\ FiniteVector(vec)) =>
          vres.ret.val = FAdd(FMul(vec.x, vec.x), FMul(vec.y, vec.y))
    /\ (vres.op = "magnitude" /\ vec = Vector_new(Lit(3), Lit(4))) =>
          vres.ret.val = Lit(5)
    /\ (vres.op = "magnitude" /\ vec = Vector_zero) => vres.ret.val = 0

\* C14 as claimed: magnitude_squared() equals x^2 + y^2, magnitude() is
\* the non-negative scalar whose square equals magnitude_squared(),
\* Vector(3, 4).magnitude() == 5, Vector(0, 0).magnitude() == 0, and
\* magnitude() == 0 only for the zero vector.
C14_Magnitude ==
    /\ MagnitudeValues
    /\ (vres.op = "magnitude" /\ FiniteVector(vec)) =>
          /\ vres.ret.val >= 0
          /\ FMul(vres.ret.val, vres.ret.val) = magnitude_squared(vec)
          /\ vres.ret.val = 0 => VectorEq(vec, Vector_zero)

\* C14 as amended: magnitude_squared() is the float sum of the float
\* squares of x and y; magnitude() is the non-negative float nearest to its
\* square root; Vector(3, 4).magnitude() == 5, Vector(0, 0).magnitude() == 0,
\* and magnitude() == 0 exactly when magnitude_squared() == 0.
C14_MagnitudeRounded ==
    /\ MagnitudeValues
    /\ (vres.op = "magnitude" /\ FiniteVector(vec)) =>
          /\ NearestRoot(vres.ret.val, magnitude_squared(vec))
          /\ vres.ret.val = 0 <=> magnitude_squared(vec) = 0

\* Position(3, 4) has the magnitude 5.
C14_Witness ==
    /\ vres.op = "magnitude"
    /\ vec = Vector_new(Lit(3), Lit(4))
    /\ vres.ret = Some(Lit(5))

---------------------------------------------------------------------------
(* Rotation: vec is the vector under rotation, vres how it was made, the   *)
(* vector it started as and the Angles it was rotated by.                  *)

\* The most rotations applied to one vector.
MaxRotations == 2

RotateVectors ==
    {<<0, 0>>, <<Lit(1), 0>>, <<Lit(1), Lit(2)>>, <<Lit(3), Lit(4)>>, <<0, Lit(-2)>>}

RotateMagnitudes == {Lit(1), Lit(2)}

\* Bearings: every 45 degrees.
Bearings == {in_degrees(Lit(45 * i)) : i \in 0..7}

\* Angles to rotate by: the multiples of 90 degrees, 30 and 45 degrees.
Rotations == {in_degrees(Lit(d)) : d \in {0, 30, 45, 90, 180, 270}}

Rotated(made, mag, angle, start, turns) ==
    [made |-> made, mag |-> mag, angle |-> angle, start |-> start, turns |-> turns]

RotateInit ==
    /\ vec = Vector_zero
    /\ vres = Rotated("default", 0, 0, Vector_zero, <<>>)

\* let v = Vector::from((x, y));
RotateFrom(x, y) ==
    /\ vres.made = "default"
    /\ vec' = Vector_new(x, y)
    /\ vres' = Rotated("from", 0, 0, Vector_new(x, y), <<>>)
    /\ UNCHANGED <<a, last, q, qres>>

\* let v = Vector::from_magnitude_and_angle(mag, angle);
RotateFromPolar(mag, angle) ==
    /\ vres.made = "default"
    /\ vec' = from_magnitude_and_angle(mag, angle)
    /\ vres' = Rotated("from_magnitude_and_angle", mag, angle,
                       from_magnitude_and_angle(mag, angle), <<>>)
    /\ UNCHANGED <<a, last, q, qres>>

\* let v = v.rotate_cw(angle);
RotateCw(angle) ==
    /\ vres.made # "default"
    /\ Len(vres.turns) < MaxRotations
    /\ vec' = rotate_cw(vec, angle)
    /\ vres' = [vres EXCEPT !.turns = Append(@, angle)]
    /\ UNCHANGED <<a, last, q, qres>>

RotateNext ==
    \/ \E v \in RotateVectors : RotateFrom(v[1], v[2])
    \/ \E m \in RotateMagnitudes, d \in Bearings : RotateFromPolar(m, d)
    \/ \E b \in Rotations : RotateCw(b)

---------------------------------------------------------------------------
(* Claims about rotate_cw.                                                 *)

\* A vector made from a positive magnitude and a bearing was rotated once.
RotatedPolar ==
    /\ vres.made = "from_magnitude_and_angle"
    /\ vres.mag > 0
    /\ Len(vres.turns) = 1

\* The rounding error allowed to a component of a rotated vector of
\* magnitude mag: two units in the last place of mag.
RotateTol(mag) == 2 * Ulp(mag)

\* C15: from_magnitude_and_angle(m, a).rotate_cw(b) equals
\* from_magnitude_and_angle(m, a + b), and its get_angle() is a + b (both
\* taken up to rounding error).
C15_RotateAddsBearing ==
    RotatedPolar =>
        /\ VectorWithin(vec,
                        from_magnitude_and_angle(vres.mag,
                            AngleAdd(vres.angle, vres.turns[1])),
                        RotateTol(vres.mag))
        /\ get_angle(vec).some
        /\ AngleDist(get_angle(vec).val,
                     AngleAdd(vres.angle, vres.turns[1])) <= 2 * AngleTol

\* A finite vector was rotated n times.
RotatedTimes(n) ==
    /\ vres.made # "default"
    /\ FiniteVector(vres.start)
    /\ Len(vres.turns) = n

RightAngles == {in_degrees(Lit(90 * i)) : i \in 0..3}

\* The rounding error allowed to a component of a vector of magnitude mag
\* rotated by a sum of Angles: that of the component, and the turn through
\* the rounding error of the sum (one unit in the last place of 2pi).
ComposeTol(mag) == RotateTol(mag) + (mag * Ulp(MAX)) \div One

\* The vector rotated once by the sum of the two Angles.
RotatedBySum == rotate_cw(vres.start, AngleAdd(vres.turns[1], vres.turns[2]))

\* Rotating by the zero Angle returns v unchanged, and the zero vector is
\* mapped to the zero vector.
RotateFixes ==
    /\ (RotatedTimes(1) /\ vres.turns[1] = MIN) => VectorEq(vec, vres.start)
    /\ (RotatedTimes(1) /\ VectorEq(vres.start, Vector_zero)) =>
          VectorEq(vec, Vector_zero)

---------------------------------------------------------------------------
(* units.rs, types.rs: the unit tags.  A quantity's type is its container  *)
(* (a bare Float, a Scalar or a Vector) and its tag.                       *)

Units ==
    {"Unitless", "Seconds", "SecondsSquared", "Kilograms", "Meters",
     "MetersPerSecond", "MetersPerSecondSquared", "Kelvin", "Newtons",
     "Joules", "JoulesPerKilogram", "JoulesPerSecond", "KilogramsPerSecond",
     "KilogramsPerMeterCubed", "MetersSquared", "MetersCubed"}

\* The tags types.rs and conversion.rs name beyond those of units.rs.
ScaleUnits == {"Pixels", "MetersPerPixel", "Radians", "RadiansPerSecond"}

Tags == Units \cup ScaleUnits

ScalarOf(unit) == [kind |-> "scalar", unit |-> unit]
VectorOf(unit) == [kind |-> "vector", unit |-> unit]
FloatType == [kind |-> "float", unit |-> "Float"]
UnitVectorType == VectorOf("Float")

\* One operator instance: impl Mul<rhs> / Div<rhs> for lhs, Output = out.
Impl(op, lhs, rhs, out) == [op |-> op, lhs |-> lhs, rhs |-> rhs, out |-> out]

---------------------------------------------------------------------------
(* conversion.rs: the macros and the table of their invocations.           *)

\* divide_convert_scalars!, had the quotient kept the numerator's unit.
divide_convert_scalars_keeps_numerator(numerator, denominator, result) ==
    {Impl("div", ScalarOf(numerator), ScalarOf(denominator), ScalarOf(numerator)),
     Impl("div", ScalarOf(numerator), ScalarOf(result), ScalarOf(denominator)),
     Impl("mul", ScalarOf(result), ScalarOf(denominator), ScalarOf(numerator)),
     Impl("mul", ScalarOf(denominator), ScalarOf(result), ScalarOf(numerator))}

divide_convert_scalars(numerator, denominator, result) ==
    {Impl("div", ScalarOf(numerator), ScalarOf(denominator), ScalarOf(result)),
     Impl("div", ScalarOf(numerator), ScalarOf(result), ScalarOf(denominator)),
     Impl("mul", ScalarOf(result), ScalarOf(denominator), ScalarOf(numerator)),
     Impl("mul", ScalarOf(denominator), ScalarOf(result), ScalarOf(numerator))}

\* divide_convert_vectors!, had it left out Scalar<denominator> * Vector<result>.
divide_convert_vectors_one_order(numerator, denominator, result) ==
    {Impl("div", VectorOf(numerator), ScalarOf(denominator), VectorOf(result)),
     Impl("mul", VectorOf(result), ScalarOf(denominator), VectorOf(numerator))}

divide_convert_vectors(numerator, denominator, result) ==
    {Impl("div", VectorOf(numerator), ScalarOf(denominator), VectorOf(result)),
     Impl("mul", VectorOf(result), ScalarOf(denominator), VectorOf(numerator)),
     Impl("mul", ScalarOf(denominator), VectorOf(result), VectorOf(numerator))}

divide_convert(numerator, denominator, result) ==
    divide_convert_scalars(numerator, denominator, result)
        \cup divide_convert_vectors(numerator, denominator, result)

\* squares_scalar!, had the quotient kept the squared unit.
squares_scalar_keeps_square(normal, squared) ==
    {Impl("mul", ScalarOf(normal), ScalarOf(normal), ScalarOf(squared)),
     Impl("div", ScalarOf(squared), ScalarOf(normal), ScalarOf(squared))}

squares_scalar(normal, squared) ==
    {Impl("mul", ScalarOf(normal), ScalarOf(normal), ScalarOf(squared)),
     Impl("div", ScalarOf(squared), ScalarOf(normal), ScalarOf(normal))}

\* The invocations, in the order of the file.
Conversions ==
    divide_convert("Meters", "Seconds", "MetersPerSecond")
    \cup divide_convert("MetersPerSecond", "Seconds", "MetersPerSecondSquared")
    \cup divide_convert_scalars("Newtons", "Kilograms", "MetersPerSecondSquared")
    \cup divide_convert_scalars("Meters", "SecondsSquared", "MetersPerSecondSquared")
    \cup divide_convert_scalars("Joules", "Meters", "Newtons")
    \cup divide_convert_scalars("Joules", "Kilograms", "JoulesPerKilogram")
    \cup divide_convert_scalars("Joules", "Seconds", "JoulesPerSecond")
    \cup divide_convert_scalars("JoulesPerSecond", "JoulesPerKilogram", "KilogramsPerSecond")
    \cup divide_convert_scalars("Kilograms", "Seconds", "KilogramsPerSecond")
    \cup squares_scalar("Meters", "MetersSquared")
    \cup squares_scalar("Seconds", "SecondsSquared")
    \cup divide_convert_scalars("MetersCubed", "Meters", "MetersSquared")
    \cup divide_convert_scalars("Kilograms", "MetersCubed", "KilogramsPerMeterCubed")
    \cup divide_convert("Meters", "Pixels", "MetersPerPixel")
    \cup divide_convert("Radians", "Seconds", "RadiansPerSecond")

\* The two instances written out by hand after the table.
PixelImpls ==
    {Impl("div", VectorOf("Meters"), ScalarOf("MetersPerPixel"), VectorOf("Pixels")),
     Impl("mul", VectorOf("Pixels"), ScalarOf("MetersPerPixel"), VectorOf("Meters"))}

---------------------------------------------------------------------------
(* scalars.rs, vectors.rs: the instances generic in the tag T.             *)

ScalarImpls ==
    UNION {{Impl("mul", ScalarOf(t), FloatType, ScalarOf(t)),
            Impl("mul", FloatType, ScalarOf(t), ScalarOf(t)),
            Impl("div", ScalarOf(t), FloatType, ScalarOf(t)),
            Impl("div", ScalarOf(t), ScalarOf(t), FloatType)} : t \in Tags}

VectorImpls ==
    UNION {{Impl("mul", FloatType, VectorOf(t), VectorOf(t)),
            Impl("mul", VectorOf(t), FloatType, VectorOf(t)),
            Impl("div", VectorOf(t), FloatType, VectorOf(t)),
            Impl("div", VectorOf(t), ScalarOf(t), UnitVectorType),
            Impl("mul", ScalarOf(t), UnitVectorType, VectorOf(t)),
            Impl("mul", UnitVectorType, ScalarOf(t), VectorOf(t))}
           : t \in Tags \cup {"Float"}}

\* Float is f64, with its own product and quotient.
FloatImpls ==
    {Impl("mul", FloatType, FloatType, FloatType),
     Impl("div", FloatType, FloatType, FloatType)}

Impls == Conversions \cup PixelImpls \cup ScalarImpls \cup VectorImpls \cup FloatImpls

---------------------------------------------------------------------------
(* Quantities and the evaluation of one product or quotient.               *)

\* A Scalar or a Float keeps its value in x; a Vector has components x, y.
Quantity(kind, unit, x, y) == [kind |-> kind, unit |-> unit, x |-> x, y |-> y]

NoQuantity == Quantity("none", "none", 0, 0)

TypeOf(self) == [kind |-> self.kind, unit |-> self.unit]

\* PartialEq: same type, and the values compare equal as floats.
QuantityEq(lhs, rhs) ==
    /\ TypeOf(lhs) = TypeOf(rhs)
    /\ FEq(lhs.x, rhs.x)
    /\ lhs.kind = "vector" => FEq(lhs.y, rhs.y)

Types ==
    {FloatType} \cup {ScalarOf(t) : t \in Tags \cup {"Float"}}
                \cup {VectorOf(t) : t \in Tags \cup {"Float"}}

\* The instances indexed by the type they are implemented for (tabulated once).
ImplsFor == [lhs \in Types |-> {i \in Impls : i.lhs = lhs}] @@ <<>>

\* The instances the compiler can pick for lhs op rhs.
Instances(op, lhs, rhs) ==
    {i \in ImplsFor[TypeOf(lhs)] : i.op = op /\ i.rhs = TypeOf(rhs)}

FloatOp(op, x, y) == IF op = "mul" THEN FMul(x, y) ELSE FDiv(x, y)

\* Value, had Scalar * Vector multiplied the x component twice.
Value_x_twice(op, lhs, rhs, out) ==
    IF lhs.kind = "vector"
    THEN Quantity(out.kind, out.unit, FloatOp(op, lhs.x, rhs.x), FloatOp(op, lhs.y, rhs.x))
    ELSE IF rhs.kind = "vector"
    THEN Quantity(out.kind, out.unit, FloatOp(op, lhs.x, rhs.x), FloatOp(op, lhs.x, rhs.x))
    ELSE Quantity(out.kind, out.unit, FloatOp(op, lhs.x, rhs.x), 0)

\* The body every instance shares: the float operation on the value, or on
\* each component of the Vector operand.
Value(op, lhs, rhs, out) ==
    IF lhs.kind = "vector"
    THEN Quantity(out.kind, out.unit, FloatOp(op, lhs.x, rhs.x), FloatOp(op, lhs.y, rhs.x))
    ELSE IF rhs.kind = "vector"
    THEN Quantity(out.kind, out.unit, FloatOp(op, lhs.x, rhs.x), FloatOp(op, lhs.x, rhs.y))
    ELSE Quantity(out.kind, out.unit, FloatOp(op, lhs.x, rhs.x), 0)

\* lhs op rhs: the value when an instance exists, a type error otherwise.
Evaluate(op, lhs, rhs) ==
    LET found == Instances(op, lhs, rhs)
    IN  IF found = {} THEN [ok |-> FALSE, val |-> NoQuantity]
        ELSE [ok |-> TRUE, val |-> Value(op, lhs, rhs, (CHOOSE i \in found : TRUE).out)]

---------------------------------------------------------------------------
(* The quantity under computation.  q is the value of the expression built *)
(* so far and qres its history: the operations applied, and whether the    *)
(* expression still type-checks.                                           *)

\* The longest chain of operations applied to one quantity.
MaxChain == 2

ScalarValues == {0, One \div 2, Lit(2), Lit(3), Lit(5), FDiv(Lit(87), Lit(32))}

VectorValues == {<<0, 0>>, <<Lit(2), Lit(3)>>}

FloatValues == {Lit(2)}

Operands ==
    {Quantity("scalar", u, v, 0) : u \in Tags, v \in ScalarValues}
    \cup {Quantity("vector", u, v[1], v[2]) : u \in Tags \cup {"Float"}, v \in VectorValues}
    \cup {Quantity("float", "Float", v, 0) : v \in FloatValues}

Applied(op, lhs, rhs) == [op |-> op, lhs |-> lhs, rhs |-> rhs]

ConvInit ==
    /\ q = NoQuantity
    /\ qres = [status |-> "idle", hist |-> <<>>]

\* Scalar::from(value), Vector::from((x, y)), or a float literal.
Construct(x) ==
    /\ qres.status = "idle"
    /\ q' = x
    /\ qres' = [status |-> "ok", hist |-> <<>>]
    /\ UNCHANGED <<a, last, vec, vres>>

\* What the compiler knows of an operand: its type, not its value.
Erased(self) == Quantity(self.kind, self.unit, 0, 0)

\* The history after q op rhs.  An expression with no instance does not
\* compile: it has no value, and the error names the operand types only.
Operated(r, op, rhs) ==
    IF r.ok
    THEN [status |-> "ok", hist |-> Append(qres.hist, Applied(op, q, rhs))]
    ELSE [status |-> "rejected", hist |-> <<Applied(op, Erased(q), Erased(rhs))>>]

\* q * rhs
Multiply(rhs) ==
    /\ qres.status = "ok"
    /\ Len(qres.hist) < MaxChain
    /\ LET r == Evaluate("mul", q, rhs)
       IN  q' = r.val /\ qres' = Operated(r, "mul", rhs)
    /\ UNCHANGED <<a, last, vec, vres>>

\* q / rhs
Divide(rhs) ==
    /\ qres.status = "ok"
    /\ Len(qres.hist) < MaxChain
    /\ LET r == Evaluate("div", q, rhs)
       IN  q' = r.val /\ qres' = Operated(r, "div", rhs)
    /\ UNCHANGED <<a, last, vec, vres>>

ConvNext ==
    \/ \E x \in Operands : Construct(x)
    \/ \E rhs \in Operands : Multiply(rhs)
    \/ \E rhs \in Operands : Divide(rhs)

---------------------------------------------------------------------------
(* Claims about the conversion algebra.                                    *)

\* The registered relations <<A, B, C>>, A = B x C: those with scalar
\* operators only, those with vector operators as well, and the squaring
\* pairs <<A, A2>>.
ScalarRelations ==
    {<<"Newtons", "Kilograms", "MetersPerSecondSquared">>,
     <<"Meters", "SecondsSquared", "MetersPerSecondSquared">>,
     <<"Joules", "Meters", "Newtons">>,
     <<"Joules", "Kilograms", "JoulesPerKilogram">>,
     <<"Joules", "Seconds", "JoulesPerSecond">>,
     <<"JoulesPerSecond", "JoulesPerKilogram", "KilogramsPerSecond">>,
     <<"Kilograms", "Seconds", "KilogramsPerSecond">>,
     <<"MetersCubed", "Meters", "MetersSquared">>,
     <<"Kilograms", "MetersCubed", "KilogramsPerMeterCubed">>}

VectorRelations ==
    {<<"Meters", "Seconds", "MetersPerSecond">>,
     <<"MetersPerSecond", "Seconds", "MetersPerSecondSquared">>,
     <<"Meters", "Pixels", "MetersPerPixel">>,
     <<"Radians", "Seconds", "RadiansPerSecond">>}

SquaringPairs == {<<"Meters", "MetersSquared">>, <<"Seconds", "SecondsSquared">>}

\* The operators the relations are said to generate.
ClaimedOperators ==
    UNION {{Impl("div", ScalarOf(r[1]), ScalarOf(r[2]), ScalarOf(r[3])),
            Impl("div", ScalarOf(r[1]), ScalarOf(r[3]), ScalarOf(r[2])),
            Impl("mul", ScalarOf(r[3]), ScalarOf(r[2]), ScalarOf(r[1])),
            Impl("mul", ScalarOf(r[2]), ScalarOf(r[3]), ScalarOf(r[1]))}
           : r \in ScalarRelations \cup VectorRelations}
    \cup UNION {{Impl("div", VectorOf(r[1]), ScalarOf(r[2]), VectorOf(r[3])),
                 Impl("mul", VectorOf(r[3]), ScalarOf(r[2]), VectorOf(r[1])),
                 Impl("mul", ScalarOf(r[2]), VectorOf(r[3]), VectorOf(r[1]))}
                : r \in VectorRelations}
    \cup UNION {{Impl("mul", ScalarOf(p[1]), ScalarOf(p[1]), ScalarOf(p[2])),
                 Impl("div", ScalarOf(p[2]), ScalarOf(p[1]), ScalarOf(p[1]))}
                : p \in SquaringPairs}

\* The scale operators on vectors that no relation generates.
ScaleOperators ==
    {Impl("div", VectorOf("Meters"), ScalarOf("MetersPerPixel"), VectorOf("Pixels")),
     Impl("mul", VectorOf("Pixels"), ScalarOf("MetersPerPixel"), VectorOf("Meters"))}

\* The products of a Scalar<T> and a dimensionless unit vector.
UnitVectorOperators ==
    UNION {{Impl("mul", ScalarOf(t), UnitVectorType, VectorOf(t)),
            Impl("mul", UnitVectorType, ScalarOf(t), VectorOf(t))} : t \in Tags}

Matching(operators, ap) ==
    {e \in operators : e.op = ap.op /\ e.lhs = TypeOf(ap.lhs) /\ e.rhs = TypeOf(ap.rhs)}

LastApplied == qres.hist[Len(qres.hist)]

IsContainer(x) == x.kind \in {"scalar", "vector"}

\* The operation ap is between quantities of different units, taken from tags.
CrossUnit(ap, tags) ==
    /\ IsContainer(ap.lhs) /\ IsContainer(ap.rhs)
    /\ ap.lhs.unit \in tags /\ ap.rhs.unit \in tags
    /\ ap.lhs.unit # ap.rhs.unit

\* The last operation is accepted with the output type of each of operators
\* that matches it, and, being cross-unit over tags, is rejected when none does.
ExactlyOperators(operators, tags) ==
    Len(qres.hist) > 0 =>
        LET matching == Matching(operators, LastApplied)
        IN  /\ matching # {} =>
                  /\ qres.status = "ok"
                  /\ \A e \in matching : TypeOf(q) = e.out
            /\ (CrossUnit(LastApplied, tags) /\ matching = {}) =>
                  qres.status = "rejected"

\* C8 as claimed: the cross-unit operators are exactly those the registered
\* relations generate; every other product or quotient of two differently
\* united quantities is rejected.
C8_ExactlyGenerated == ExactlyOperators(ClaimedOperators, Tags)

\* C8 as amended: the cross-unit operators are those the registered
\* relations generate, the two scale operators on vectors written by hand
\* (Vector<Meters> / Scalar<MetersPerPixel> and Vector<Pixels> *
\* Scalar<MetersPerPixel>) and the products of a Scalar<T> with a
\* dimensionless unit vector; every other product or quotient of two
\* differently united quantities is rejected.
C8_GeneratedScaleAndUnitVector ==
    ExactlyOperators(ClaimedOperators \cup ScaleOperators \cup UnitVectorOperators,
                     Tags \cup {"Float"})

\* A product outside the table is rejected.
C8_Witness ==
    /\ qres.status = "rejected"
    /\ LastApplied = Applied("mul", Quantity("scalar", "Meters", 0, 0),
                             Quantity("vector", "Kilograms", 0, 0))

FiniteQuantity(x) == IsFinite(x.x) /\ IsFinite(x.y)

\* C9: a product of finite values that the relations generate is accepted
\* in either operand order, with the same unit and an equal value.
C9_Commutes ==
    (/\ Len(qres.hist) > 0
     /\ LastApplied.op = "mul"
     /\ Matching(ClaimedOperators, LastApplied) # {}
     /\ LastApplied.lhs.unit # LastApplied.rhs.unit
     /\ FiniteQuantity(LastApplied.lhs) /\ FiniteQuantity(LastApplied.rhs)) =>
        /\ qres.status = "ok"
        /\ LET commuted == Evaluate("mul", LastApplied.rhs, LastApplied.lhs)
           IN  commuted.ok /\ QuantityEq(commuted.val, q)

\* Velocity(2, 3) * Time(5) = Position(10, 15)
C9_Witness ==
    /\ qres.status = "ok"
    /\ qres.hist = <<Applied("mul",
                             Quantity("vector", "MetersPerSecond", Lit(2), Lit(3)),
                             Quantity("scalar", "Seconds", Lit(5), 0))>>
    /\ q = Quantity("vector", "Meters", Lit(10), Lit(15))

\* The operation ap belongs to a registered relation or to the scale family.
OfRelation(ap) == Matching(ClaimedOperators \cup ScaleOperators, ap) # {}

NonZero(x) == x.x # 0 \/ (x.kind = "vector" /\ x.y # 0)

\* The float operation x op y is computed without rounding.
ExactOp(op, x, y) ==
    IF op = "mul"
    THEN (x * y) % One = 0 /\ Representable((x * y) \div One)
    ELSE y # 0 /\ (x * One) % Abs(y) = 0 /\ Representable((x * One) \div Abs(y))

\* Every float operation of ap is computed without rounding.
Exact(ap) ==
    /\ FiniteQuantity(ap.lhs) /\ FiniteQuantity(ap.rhs)
    /\ IF ap.lhs.kind = "vector"
       THEN ExactOp(ap.op, ap.lhs.x, ap.rhs.x) /\ ExactOp(ap.op, ap.lhs.y, ap.rhs.x)
       ELSE IF ap.rhs.kind = "vector"
       THEN ExactOp(ap.op, ap.lhs.x, ap.rhs.x) /\ ExactOp(ap.op, ap.lhs.x, ap.rhs.y)
       ELSE ExactOp(ap.op, ap.lhs.x, ap.rhs.x)

\* Two operations of a relation were applied, on finite nonzero operands.
Undone(first, second) ==
    /\ qres.status = "ok"
    /\ Len(qres.hist) = 2
    /\ qres.hist[1].op = first /\ qres.hist[2].op = second
    /\ OfRelation(qres.hist[1])
    /\ FiniteQuantity(qres.hist[1].lhs) /\ FiniteQuantity(qres.hist[1].rhs)
    /\ NonZero(qres.hist[1].rhs)

\* The last operation undoes the first: dividing the product by one of its
\* factors gives the other factor, multiplying the quotient by the divisor
\* gives the dividend.  This holds whenever precise holds of the first
\* operation.
Inverse(precise(_)) ==
    /\ (Undone("mul", "div") /\ NonZero(qres.hist[1].lhs) /\ precise(qres.hist[1])) =>
          /\ (qres.hist[2].rhs = qres.hist[1].rhs) => QuantityEq(q, qres.hist[1].lhs)
          /\ (qres.hist[2].rhs = qres.hist[1].lhs) => QuantityEq(q, qres.hist[1].rhs)
    /\ (Undone("div", "mul") /\ precise(qres.hist[1])
            /\ qres.hist[2].rhs = qres.hist[1].rhs) =>
          QuantityEq(q, qres.hist[1].lhs)

Always(ap) == TRUE

\* C10 as claimed: for every relation and all nonzero b and c,
\* (c * b) / b == c and (c * b) / c == b, and (a / b) * b == a.
C10_InverseAlways == Inverse(Always)

\* C10 as amended: (c * b) / b == c and (c * b) / c == b whenever the product
\* c * b is computed without rounding, and (a / b) * b == a whenever the
\* quotient a / b is.
C10_InverseWhenExact == Inverse(Exact)

\* Length(2) * Length(3) = Area(6) and Area(6) / Length(3) = Length(2)
C10_Witness ==
    /\ qres.status = "ok"
    /\ qres.hist = <<Applied("mul", Quantity("scalar", "Meters", Lit(2), 0),
                             Quantity("scalar", "Meters", Lit(3), 0)),
                     Applied("div", Quantity("scalar", "MetersSquared", Lit(6), 0),
                             Quantity("scalar", "Meters", Lit(3), 0))>>
    /\ q = Quantity("scalar", "Meters", Lit(2), 0)

\* The exponents of a unit over <<meter, second, kilogram, pixel, radian>>,
\* read off its name and symbol (J = kg m2 / s2, N = kg m / s2).
Dim(unit) ==
    CASE unit = "Seconds" -> <<0, 1, 0, 0, 0>>
      [] unit = "SecondsSquared" -> <<0, 2, 0, 0, 0>>
      [] unit = "Kilograms" -> <<0, 0, 1, 0, 0>>
      [] unit = "Meters" -> <<1, 0, 0, 0, 0>>
      [] unit = "MetersPerSecond" -> <<1, -1, 0, 0, 0>>
      [] unit = "MetersPerSecondSquared" -> <<1, -2, 0, 0, 0>>
      [] unit = "Newtons" -> <<1, -2, 1, 0, 0>>
      [] unit = "Joules" -> <<2, -2, 1, 0, 0>>
      [] unit = "JoulesPerKilogram" -> <<2, -2, 0, 0, 0>>
      [] unit = "JoulesPerSecond" -> <<2, -3, 1, 0, 0>>
      [] unit = "KilogramsPerSecond" -> <<0, -1, 1, 0, 0>>
      [] unit = "KilogramsPerMeterCubed" -> <<-3, 0, 1, 0, 0>>
      [] unit = "MetersSquared" -> <<2, 0, 0, 0, 0>>
      [] unit = "MetersCubed" -> <<3, 0, 0, 0, 0>>
      [] unit = "Pixels" -> <<0, 0, 0, 1, 0>>
      [] unit = "MetersPerPixel" -> <<1, 0, 0, -1, 0>>
      [] unit = "Radians" -> <<0, 0, 0, 0, 1>>
      [] unit = "RadiansPerSecond" -> <<0, -1, 0, 0, 1>>
      [] unit \in {"Unitless", "Float"} -> <<0, 0, 0, 0, 0>>

\* The exponents of a product or a quotient.
DimOp(op, l, r) ==
    [k \in 1..5 |-> IF op = "mul" THEN l[k] + r[k] ELSE l[k] - r[k]]

\* The registered table: the macro invocations and the two instances
\* written by hand.
Registered == Conversions \cup PixelImpls

\* The output unit of instance i has the exponents of the product or
\* quotient of its operands' units.
Consistent(i) == Dim(i.out.unit) = DimOp(i.op, Dim(i.lhs.unit), Dim(i.rhs.unit))

\* No instance has the operator and operand types of i and another output.
Unambiguous(i) ==
    \A j \in Impls : (j.op = i.op /\ j.lhs = i.lhs /\ j.rhs = i.rhs) => j.out = i.out

\* C16: every instance of the registered table has an output unit whose
\* exponents over (meter, second, kilogram, pixel, radian) are the sum (for
\* *) or difference (for /) of its operands' exponents, and no (left unit,
\* operator, right unit) has two output units; so every registered product
\* or quotient that is evaluated has exactly one instance and a result of
\* the right dimension.
C16_DimensionallyConsistent ==
    /\ qres.status = "idle" =>
          \A i \in Registered : Consistent(i) /\ Unambiguous(i)
    /\ (qres.status = "ok" /\ Len(qres.hist) > 0
            /\ Matching(Registered, LastApplied) # {}) =>
          /\ Cardinality(Instances(LastApplied.op, LastApplied.lhs, LastApplied.rhs)) = 1
          /\ Dim(q.unit) = DimOp(LastApplied.op, Dim(LastApplied.lhs.unit),
                                 Dim(LastApplied.rhs.unit))

\* Power / SpecificEnergy = MassRate: J/s divided by J/kg is kg/s.
C16_Witness ==
    /\ qres.status = "ok"
    /\ Len(qres.hist) > 0
    /\ LastApplied.op = "div"
    /\ TypeOf(LastApplied.lhs) = ScalarOf("JoulesPerSecond")
    /\ TypeOf(LastApplied.rhs) = ScalarOf("JoulesPerKilogram")
    /\ TypeOf(q) = ScalarOf("KilogramsPerSecond")
    /\ FiniteQuantity(q) /\ NonZero(q)

---------------------------------------------------------------------------
(* scalars.rs, vectors.rs: the operators within one unit, on a quantity    *)
(* that is a Scalar<T> (value x) or a Vector<T> (components x, y).         *)

IsVector(self) == self.kind = "vector"

\* Add for Scalar<T>; Add for Vector<T> adds the components.
QuantityAdd(self, rhs) ==
    Quantity(self.kind, self.unit, ScalarAdd(self.x, rhs.x),
             IF IsVector(self) THEN ScalarAdd(self.y, rhs.y) ELSE 0)

\* Sub, had it subtracted the operands the other way round.
QuantitySub_reversed(self, rhs) ==
    Quantity(self.kind, self.unit, ScalarSub(rhs.x, self.x),
             IF IsVector(self) THEN ScalarSub(rhs.y, self.y) ELSE 0)

\* Sub for Scalar<T>; Sub for Vector<T> subtracts the components.
QuantitySub(self, rhs) ==
    Quantity(self.kind, self.unit, ScalarSub(self.x, rhs.x),
             IF IsVector(self) THEN ScalarSub(self.y, rhs.y) ELSE 0)

\* Mul<Float>, had a Vector scaled its x component only.
QuantityMulFloat_x_only(self, rhs) ==
    Quantity(self.kind, self.unit, ScalarMulFloat(self.x, rhs),
             IF IsVector(self) THEN self.y ELSE 0)

\* Mul<Float> for Scalar<T> and for Vector<T>.
QuantityMulFloat(self, rhs) ==
    Quantity(self.kind, self.unit, ScalarMulFloat(self.x, rhs),
             IF IsVector(self) THEN ScalarMulFloat(self.y, rhs) ELSE 0)

\* Mul<Scalar<T>> for Float and Mul<Vector<T>> for Float.
FloatMulQuantity(self, rhs) ==
    Quantity(rhs.kind, rhs.unit, FloatMulScalar(self, rhs.x),
             IF IsVector(rhs) THEN FloatMulScalar(self, rhs.y) ELSE 0)

\* Div<Float> for Scalar<T> and for Vector<T>.
QuantityDivFloat(self, rhs) ==
    Quantity(self.kind, self.unit, ScalarDivFloat(self.x, rhs),
             IF IsVector(self) THEN ScalarDivFloat(self.y, rhs) ELSE 0)

\* Neg: self * -1.0
QuantityNeg(self) == QuantityMulFloat(self, Lit(-1))

\* The in-place forms update the value, or each component, in place.
QuantityAddAssign(self, rhs) ==
    Quantity(self.kind, self.unit, FAdd(self.x, rhs.x),
             IF IsVector(self) THEN FAdd(self.y, rhs.y) ELSE 0)

QuantitySubAssign(self, rhs) ==
    Quantity(self.kind, self.unit, FSub(self.x, rhs.x),
             IF IsVector(self) THEN FSub(self.y, rhs.y) ELSE 0)

QuantityMulAssign(self, rhs) ==
    Quantity(self.kind, self.unit, FMul(self.x, rhs),
             IF IsVector(self) THEN FMul(self.y, rhs) ELSE 0)

QuantityDivAssign(self, rhs) ==
    Quantity(self.kind, self.unit, FDiv(self.x, rhs),
             IF IsVector(self) THEN FDiv(self.y, rhs) ELSE 0)

QuantityZero(self) == Quantity(self.kind, self.unit, Scalar_zero, Scalar_zero)

---------------------------------------------------------------------------
(* Arithmetic within one unit: q is the caller's binding, qres the         *)
(* operations applied to it.                                               *)

\* The longest sequence of operations applied to one binding.
MaxArith == 2

ArithUnits == {"Meters", "Kelvin"}

ArithScalars ==
    {0, One \div 2, Lit(3), Lit(-3), FDiv(Lit(129), Lit(64)), FDiv(Lit(87), Lit(32))}

ArithVectors == {<<0, 0>>, <<Lit(2), Lit(3)>>, <<FDiv(Lit(129), Lit(64)), Lit(-3)>>}

ArithFactors == {0, Lit(-1), One \div 2, Lit(3)}

ArithOperands ==
    {Quantity("scalar", u, v, 0) : u \in ArithUnits, v \in ArithScalars}
    \cup {Quantity("vector", u, v[1], v[2]) : u \in ArithUnits, v \in ArithVectors}

FloatOf(k) == Quantity("float", "Float", k, 0)

\* The binding after one more operation.
Ready == qres.status = "ok" /\ Len(qres.hist) < MaxArith

Record(op, rhs) == [status |-> "ok", hist |-> Append(qres.hist, Applied(op, q, rhs))]

\* q + rhs
Plus(rhs) ==
    /\ Ready /\ TypeOf(rhs) = TypeOf(q)
    /\ q' = QuantityAdd(q, rhs)
    /\ qres' = Record("add", rhs)
    /\ UNCHANGED <<a, last, vec, vres>>

\* q - rhs
Minus(rhs) ==
    /\ Ready /\ TypeOf(rhs) = TypeOf(q)
    /\ q' = QuantitySub(q, rhs)
    /\ qres' = Record("sub", rhs)
    /\ UNCHANGED <<a, last, vec, vres>>

\* -q
Negate ==
    /\ Ready
    /\ q' = QuantityNeg(q)
    /\ qres' = Record("neg", NoQuantity)
    /\ UNCHANGED <<a, last, vec, vres>>

\* q += rhs
PlusAssign(rhs) ==
    /\ Ready /\ TypeOf(rhs) = TypeOf(q)
    /\ q' = QuantityAddAssign(q, rhs)
    /\ qres' = Record("add_assign", rhs)
    /\ UNCHANGED <<a, last, vec, vres>>

\* q -= rhs
MinusAssign(rhs) ==
    /\ Ready /\ TypeOf(rhs) = TypeOf(q)
    /\ q' = QuantitySubAssign(q, rhs)
    /\ qres' = Record("sub_assign", rhs)
    /\ UNCHANGED <<a, last, vec, vres>>

\* q * k
Times(k) ==
    /\ Ready
    /\ q' = QuantityMulFloat(q, k)
    /\ qres' = Record("mul", FloatOf(k))
    /\ UNCHANGED <<a, last, vec, vres>>

\* k * q
TimesLeft(k) ==
    /\ Ready
    /\ q' = FloatMulQuantity(k, q)
    /\ qres' = Record("mul_left", FloatOf(k))
    /\ UNCHANGED <<a, last, vec, vres>>

\* q *= k
TimesAssign(k) ==
    /\ Ready
    /\ q' = QuantityMulAssign(q, k)
    /\ qres' = Record("mul_assign", FloatOf(k))
    /\ UNCHANGED <<a, last, vec, vres>>

\* q / k
Over(k) ==
    /\ Ready
    /\ q' = QuantityDivFloat(q, k)
    /\ qres' = Record("div", FloatOf(k))
    /\ UNCHANGED <<a, last, vec, vres>>

\* q /= k
OverAssign(k) ==
    /\ Ready
    /\ q' = QuantityDivAssign(q, k)
    /\ qres' = Record("div_assign", FloatOf(k))
    /\ UNCHANGED <<a, last, vec, vres>>

ArithNext ==
    \/ \E x \in ArithOperands : Construct(x)
    \/ \E rhs \in ArithOperands : Plus(rhs)
    \/ \E rhs \in ArithOperands : Minus(rhs)
    \/ Negate
    \/ \E rhs \in ArithOperands : PlusAssign(rhs)
    \/ \E rhs \in ArithOperands : MinusAssign(rhs)
    \/ \E k \in ArithFactors : Times(k)
    \/ \E k \in ArithFactors : TimesLeft(k)
    \/ \E k \in ArithFactors : TimesAssign(k)
    \/ \E k \in ArithFactors : Over(k)
    \/ \E k \in ArithFactors : OverAssign(k)

---------------------------------------------------------------------------
(* Claims about the arithmetic within one unit.                            *)

\* The sum of ap's operands is computed without rounding.
ExactSum(ap) ==
    /\ Representable(ap.lhs.x + ap.rhs.x)
    /\ IsVector(ap.lhs) => Representable(ap.lhs.y + ap.rhs.y)

\* The last operation, applied to finite operands, is op.
Did(op) ==
    /\ qres.status = "ok"
    /\ Len(qres.hist) > 0
    /\ LastApplied.op = op
    /\ FiniteQuantity(LastApplied.lhs) /\ FiniteQuantity(LastApplied.rhs)

\* b was added to a finite a and then subtracted again.
AddedAndSubtracted ==
    /\ Len(qres.hist) = 2
    /\ qres.hist[1].op = "add"
    /\ Did("sub")
    /\ qres.hist[2].rhs = qres.hist[1].rhs

\* a - a == zero(), a + zero() == a, -a == a * -1 and a + (-a) == zero().
ExactGroupLaws ==
    /\ (Did("sub") /\ LastApplied.rhs = LastApplied.lhs) =>
          QuantityEq(q, QuantityZero(LastApplied.lhs))
    /\ (Did("add") /\ LastApplied.rhs = QuantityZero(LastApplied.lhs)) =>
          QuantityEq(q, LastApplied.lhs)
    /\ Did("neg") =>
          /\ QuantityEq(q, QuantityMulFloat(LastApplied.lhs, Lit(-1)))
          /\ QuantityEq(QuantityAdd(LastApplied.lhs, q), QuantityZero(q))

\* C11 as claimed: for all finite a and b of one unit, a + b - b == a,
\* a - a == zero(), a + zero() == a, -a == a * -1 and a + (-a) == zero(),
\* component-wise for vectors.
C11_GroupLaws ==
    /\ ExactGroupLaws
    /\ AddedAndSubtracted => QuantityEq(q, qres.hist[1].lhs)

\* C11 as amended: a - a == zero(), a + zero() == a, -a == a * -1 and
\* a + (-a) == zero() hold exactly for all finite a; a + b - b == a holds
\* whenever the sum a + b is computed without rounding.
C11_GroupLawsWhenExact ==
    /\ ExactGroupLaws
    /\ (AddedAndSubtracted /\ ExactSum(qres.hist[1])) => QuantityEq(q, qres.hist[1].lhs)

\* A nonzero b was added to another nonzero a and subtracted again, giving
\* a back.
C11_Witness ==
    /\ AddedAndSubtracted
    /\ NonZero(qres.hist[1].rhs) /\ NonZero(qres.hist[1].lhs)
    /\ qres.hist[1].rhs # qres.hist[1].lhs
    /\ q = qres.hist[1].lhs

\* The number the last operation scaled by.
Factor(ap) == ap.rhs.x

\* v was multiplied by a nonzero k and the product divided by k again.
ScaledAndDivided ==
    /\ Len(qres.hist) = 2
    /\ qres.hist[1].op = "mul"
    /\ Did("div")
    /\ Factor(qres.hist[2]) = Factor(qres.hist[1])
    /\ Factor(qres.hist[1]) # 0

\* v * k == k * v, and v *= k leaves v equal to v * k.
ScalingForms ==
    /\ Did("mul") =>
          QuantityEq(q, FloatMulQuantity(Factor(LastApplied), LastApplied.lhs))
    /\ Did("mul_left") =>
          QuantityEq(q, QuantityMulFloat(LastApplied.lhs, Factor(LastApplied)))
    /\ Did("mul_assign") =>
          QuantityEq(q, QuantityMulFloat(LastApplied.lhs, Factor(LastApplied)))

\* C12 as claimed: for every finite Scalar or Vector v and number k,
\* v * k == k * v, v *= k leaves v equal to v * k, and for nonzero k
\* (v * k) / k == v.
C12_ScalingInverse ==
    /\ ScalingForms
    /\ ScaledAndDivided => QuantityEq(q, qres.hist[1].lhs)

\* C12 as amended: v * k == k * v and v *= k leaves v equal to v * k; for
\* nonzero k, (v * k) / k == v whenever the product v * k is computed
\* without rounding.
C12_ScalingInverseWhenExact ==
    /\ ScalingForms
    /\ (ScaledAndDivided /\ Exact(qres.hist[1])) => QuantityEq(q, qres.hist[1].lhs)

\* A nonzero vector was scaled by 3 and divided by 3, giving it back.
C12_Witness ==
    /\ ScaledAndDivided
    /\ Factor(qres.hist[1]) = Lit(3)
    /\ IsVector(q) /\ NonZero(q)
    /\ q = qres.hist[1].lhs

---------------------------------------------------------------------------
(* Specifications.                                                         *)

AngleIdle == AngleInit
VectorIdle == VectorInit
ConvIdle == ConvInit

Init == AngleInit /\ VectorIdle /\ ConvIdle

Next == AngleNext

Spec == Init /\ [][Next]_vars

InitVector == AngleIdle /\ VectorInit /\ ConvIdle

SpecVector == InitVector /\ [][VectorNext]_vars

InitConv == AngleIdle /\ VectorIdle /\ ConvInit

SpecConv == InitConv /\ [][ConvNext]_vars

InitArith == AngleIdle /\ VectorIdle /\ ConvInit

SpecArith == InitArith /\ [][ArithNext]_vars

InitRotate ==
    /\ AngleIdle
    /\ RotateInit
    /\ ConvIdle

SpecRotate == InitRotate /\ [][RotateNext]_vars

=============================================================================
